---- MODULE Spec2Model ----
(***************************************************************************)
(* A model of leafletInterop.js: the registry `maps` of Leaflet map        *)
(* instances keyed by DOM element id, the timers armed by initializeMap,   *)
(* and the handlers addMarker, addMarkers, addCircle, clearMap, fitBounds. *)
(* The Leaflet library appears as the object graph the handlers build:     *)
(* map objects (container, view, tile layer, attached layers) and layer    *)
(* objects (markers and circles with the options handed to L.marker and    *)
(* L.circle).  Coordinates are integers in tenths of a unit, so that the   *)
(* 10% padding of a bounding box is exact.                                 *)
(***************************************************************************)
EXTENDS Integers, Sequences, FiniteSets, TLC

VARIABLES
    maps,       \* the registry: mapId -> [map: map handle, layers: sequence of layer handles]
    timers,     \* the pending setTimeout callbacks of initializeMap, in firing order
    document,   \* the ids of the elements document.getElementById finds
    leaflet,    \* the library's objects: [maps: handle -> map object, layers: handle -> layer object]
    console,    \* what the latest handler wrote with console.error
    event       \* the latest handler run: its name and mapId, the array and the library
                \* fault of an addMarkers, and whether it returned or threw

vars == <<maps, timers, document, leaflet, console, event>>

\* ---------------------------------------------------------------- bounds
MaxLayers  == 2     \* layer objects ever created, under Spec
MaxTimers  == 2     \* pending timers, under SpecInit
InitLayers == 1     \* layer objects ever created, under SpecInit

\* ------------------------------------------------------- program constants
MaxZoom    == 18    \* maxZoom of the tile layer
PadPercent == 10    \* pad(0.1)

\* ------------------------------------------------------------ input values
Undefined == <<>>                    \* a missing string argument; a string s is <<s>>
Truthy(s) == s # Undefined /\ s # <<"">>

MapIds == {"m1", "m2"}

FirstArgs  == [latitude |-> 10, longitude |-> 20, zoom |-> 5]
SecondArgs == [latitude |-> 99, longitude |-> 99, zoom |-> 1]
InitArgs   == {FirstArgs, SecondArgs}

PlainMarker == [lat |-> 10, lng |-> 10, title |-> Undefined, popup |-> Undefined]
PopupMarker == [lat |-> 20, lng |-> 30, title |-> <<"t">>,  popup |-> <<"p">>]
MarkerData  == {PlainMarker, PopupMarker}

CircleData ==
    { [lat |-> 30, lng |-> 20, radius |-> 10,
       color |-> "red", fillColor |-> "red", fillOpacity |-> 3] }

RECURSIVE SeqsUpTo(_, _)
SeqsUpTo(S, n) ==
    IF n = 0 THEN { <<>> }
    ELSE LET shorter == SeqsUpTo(S, n - 1)
         IN  shorter \cup { Append(s, x) : s \in shorter, x \in S }

\* A library fault: the library call made for element `at` throws; "create" is
\* L.marker / L.circle throwing, "bind" is bindPopup throwing.
NoFault == [at |-> 0, kind |-> "none"]
FaultAt(i, m) ==
    { [at |-> i, kind |-> "create"] }
        \cup (IF Truthy(m.popup) THEN { [at |-> i, kind |-> "bind"] } ELSE {})
BatchFaults(markers) ==
    { NoFault } \cup UNION { FaultAt(i, markers[i]) : i \in 1..Len(markers) }
KindAt(fault, i) == IF fault.at = i THEN fault.kind ELSE "none"

\* ------------------------------------------------------ diagnostic messages
MapNotInitialized(mapId) == <<"MapNotInitialized", mapId>>
SurfaceNotFound(mapId)   == <<"SurfaceNotFound", mapId>>

\* ------------------------------------------------------------- the library
NoMaps == [h \in {} |-> h]

\* A new object's handle; a map's handle names the container it was built on.
NewMapHandle(lf, mapId) ==
    <<mapId, Cardinality({ h \in DOMAIN lf.maps : lf.maps[h].container = mapId }) + 1>>
NewLayerHandle(lf, map) ==
    <<map, Cardinality({ h \in DOMAIN lf.layers : h[1] = map }) + 1>>

\* L.map(mapId).setView([latitude, longitude], zoom), then L.tileLayer(...).addTo(map)
L_map(lf, h, mapId, latitude, longitude, zoom) ==
    [lf EXCEPT !.maps = @ @@ (h :>
        [container |-> mapId,
         view      |-> [call |-> "setView", args |-> <<latitude, longitude, zoom>>],
         tileLayer |-> [maxZoom |-> MaxZoom],
         layers    |-> {}])]

L_marker(latitude, longitude, title) ==
    [kind |-> "marker", lat |-> latitude, lng |-> longitude, radius |-> 0,
     title |-> title, popup |-> Undefined, style |-> <<>>]

L_circle(latitude, longitude, radius, color, fillColor, fillOpacity) ==
    [kind |-> "circle", lat |-> latitude, lng |-> longitude, radius |-> radius,
     title |-> Undefined, popup |-> Undefined,
     style |-> <<color, fillColor, fillOpacity>>]

\* layer.addTo(map)
addTo(lf, h, object, map) ==
    [lf EXCEPT !.layers = @ @@ (h :> object),
               !.maps[map].layers = @ \cup {h}]

bindPopup(lf, h, content) == [lf EXCEPT !.layers[h].popup = content]

removeLayer(lf, map, h) == [lf EXCEPT !.maps[map].layers = @ \ {h}]

Min(S) == CHOOSE x \in S : \A y \in S : x <= y
Max(S) == CHOOSE x \in S : \A y \in S : x >= y

\* layer.getBounds(): <<south, west, north, east>>
LayerBounds(o) ==
    <<o.lat - o.radius, o.lng - o.radius, o.lat + o.radius, o.lng + o.radius>>

\* L.featureGroup(handles).getBounds()
GroupBounds(lf, handles) ==
    LET boxes == { LayerBounds(lf.layers[h]) : h \in handles }
    IN  << Min({ b[1] : b \in boxes }), Min({ b[2] : b \in boxes }),
           Max({ b[3] : b \in boxes }), Max({ b[4] : b \in boxes }) >>

\* bounds.pad(0.1)
Pad(b) ==
    LET heightBuffer == ((b[3] - b[1]) * PadPercent) \div 100
        widthBuffer  == ((b[4] - b[2]) * PadPercent) \div 100
    IN  <<b[1] - heightBuffer, b[2] - widthBuffer,
          b[3] + heightBuffer, b[4] + widthBuffer>>

Range(s) == { s[i] : i \in 1..Len(s) }

\* ------------------------------------------------------------- the handlers
\* A handler is a function of the world it runs in: the registry and the
\* library's objects, together with what it logs and whether it returned or
\* threw.
World == [maps |-> maps, leaflet |-> leaflet, console |-> <<>>, outcome |-> "returned"]

HasEntry(registry, mapId) == mapId \in DOMAIN registry

\* Without the `if (!mapData)` guard the handler goes on to read mapData.map
\* of undefined, which throws.
NotInitializedUnguarded(w, mapId) == [w EXCEPT !.outcome = "threw"]

NotInitialized(w, mapId) ==
    [w EXCEPT !.console = Append(@, MapNotInitialized(mapId))]

\* The callback without the `if (!maps[mapId])` check: a second map is built
\* and replaces the entry.
initializeCallbackReplace(w, doc, t) ==
    IF t.mapId \notin doc
    THEN [w EXCEPT !.console = Append(@, SurfaceNotFound(t.mapId))]
    ELSE LET map == NewMapHandle(w.leaflet, t.mapId)
         IN  [w EXCEPT
                !.leaflet = L_map(@, map, t.mapId, t.latitude, t.longitude, t.zoom),
                !.maps = (t.mapId :> [map |-> map, layers |-> <<>>]) @@ @]

\* The callback repositioning the map of an entry that exists already.
initializeCallbackReposition(w, doc, t) ==
    IF t.mapId \notin doc
    THEN [w EXCEPT !.console = Append(@, SurfaceNotFound(t.mapId))]
    ELSE IF ~HasEntry(w.maps, t.mapId)
    THEN LET map == NewMapHandle(w.leaflet, t.mapId)
         IN  [w EXCEPT
                !.leaflet = L_map(@, map, t.mapId, t.latitude, t.longitude, t.zoom),
                !.maps = @ @@ (t.mapId :> [map |-> map, layers |-> <<>>])]
    ELSE [w EXCEPT !.leaflet.maps[w.maps[t.mapId].map].view =
            [call |-> "setView", args |-> <<t.latitude, t.longitude, t.zoom>>]]

\* The callback looking the entry up before the element.
initializeCallbackEntryFirst(w, doc, t) ==
    IF HasEntry(w.maps, t.mapId) THEN w
    ELSE IF t.mapId \notin doc
    THEN [w EXCEPT !.console = Append(@, SurfaceNotFound(t.mapId))]
    ELSE LET map == NewMapHandle(w.leaflet, t.mapId)
         IN  [w EXCEPT
                !.leaflet = L_map(@, map, t.mapId, t.latitude, t.longitude, t.zoom),
                !.maps = @ @@ (t.mapId :> [map |-> map, layers |-> <<>>])]

\* The callback initializeMap hands to setTimeout, run with the document `doc`.
initializeCallback(w, doc, t) ==
    IF t.mapId \notin doc
    THEN [w EXCEPT !.console = Append(@, SurfaceNotFound(t.mapId))]
    ELSE IF ~HasEntry(w.maps, t.mapId)
    THEN LET map == NewMapHandle(w.leaflet, t.mapId)
         IN  [w EXCEPT
                !.leaflet = L_map(@, map, t.mapId, t.latitude, t.longitude, t.zoom),
                !.maps = @ @@ (t.mapId :> [map |-> map, layers |-> <<>>])]
    ELSE w

\* A callback that arms itself again while the element is missing.
timersAfterCallbackRetry(pending, doc) ==
    IF Head(pending).mapId \notin doc
    THEN Append(Tail(pending), Head(pending))
    ELSE Tail(pending)

\* The timers left once the head timer's callback has run.
timersAfterCallback(pending, doc) == Tail(pending)

addMarkerIn(w, mapId, latitude, longitude, title, popupContent, fault) ==
    IF ~HasEntry(w.maps, mapId) THEN NotInitialized(w, mapId)
    ELSE IF fault = "create" THEN [w EXCEPT !.outcome = "threw"]
    ELSE LET mapData  == w.maps[mapId]
             marker   == NewLayerHandle(w.leaflet, mapData.map)
             attached == addTo(w.leaflet, marker,
                               L_marker(latitude, longitude, title), mapData.map)
         IN  IF Truthy(popupContent) /\ fault = "bind"
             THEN [w EXCEPT !.leaflet = attached, !.outcome = "threw"]
             ELSE [w EXCEPT
                    !.leaflet = IF Truthy(popupContent)
                                THEN bindPopup(attached, marker, popupContent)
                                ELSE attached,
                    !.maps[mapId].layers = Append(@, marker)]

\* The body of the forEach of addMarkers, for one markerData.
markerDataIn(w, mapId, markerData, fault) ==
    IF fault = "create" THEN [w EXCEPT !.outcome = "threw"]
    ELSE LET mapData  == w.maps[mapId]
             marker   == NewLayerHandle(w.leaflet, mapData.map)
             title    == IF Truthy(markerData.title) THEN markerData.title ELSE <<"">>
             attached == addTo(w.leaflet, marker,
                               L_marker(markerData.lat, markerData.lng, title),
                               mapData.map)
         IN  IF Truthy(markerData.popup) /\ fault = "bind"
             THEN [w EXCEPT !.leaflet = attached, !.outcome = "threw"]
             ELSE [w EXCEPT
                    !.leaflet = IF Truthy(markerData.popup)
                                THEN bindPopup(attached, marker, markerData.popup)
                                ELSE attached,
                    !.maps[mapId].layers = Append(@, marker)]

\* A forEach that undoes the earlier elements when one throws.
RECURSIVE forEachMarkerRollback(_, _, _, _, _)
forEachMarkerRollback(w, mapId, markers, i, fault) ==
    IF i > Len(markers) THEN w
    ELSE LET next == markerDataIn(w, mapId, markers[i], KindAt(fault, i))
             rest == forEachMarkerRollback(next, mapId, markers, i + 1, fault)
         IN  IF next.outcome = "threw" THEN [w EXCEPT !.outcome = "threw"]
             ELSE IF rest.outcome = "threw" THEN [w EXCEPT !.outcome = "threw"]
             ELSE rest

RECURSIVE forEachMarker(_, _, _, _, _)
forEachMarker(w, mapId, markers, i, fault) ==
    IF i > Len(markers) THEN w
    ELSE LET next == markerDataIn(w, mapId, markers[i], KindAt(fault, i))
         IN  IF next.outcome = "threw" THEN next
             ELSE forEachMarker(next, mapId, markers, i + 1, fault)

addMarkersIn(w, mapId, markers, fault) ==
    IF ~HasEntry(w.maps, mapId) THEN NotInitialized(w, mapId)
    ELSE forEachMarker(w, mapId, markers, 1, fault)

\* addCircle pushing the circle before it is attached: when addTo throws the
\* circle is in `layers` and on no map.
addCirclePushFirst(w, mapId, c, fault) ==
    IF ~HasEntry(w.maps, mapId) THEN NotInitialized(w, mapId)
    ELSE LET mapData == w.maps[mapId]
             circle  == NewLayerHandle(w.leaflet, mapData.map)
             object  == L_circle(c.lat, c.lng, c.radius, c.color,
                                 c.fillColor, c.fillOpacity)
         IN  IF fault = "create"
             THEN [w EXCEPT !.leaflet.layers = @ @@ (circle :> object),
                            !.maps[mapId].layers = Append(@, circle),
                            !.outcome = "threw"]
             ELSE [w EXCEPT !.leaflet = addTo(@, circle, object, mapData.map),
                            !.maps[mapId].layers = Append(@, circle)]

addCircleIn(w, mapId, c, fault) ==
    IF ~HasEntry(w.maps, mapId) THEN NotInitialized(w, mapId)
    ELSE IF fault = "create" THEN [w EXCEPT !.outcome = "threw"]
    ELSE LET mapData == w.maps[mapId]
             circle  == NewLayerHandle(w.leaflet, mapData.map)
         IN  [w EXCEPT
                !.leaflet = addTo(@, circle,
                                  L_circle(c.lat, c.lng, c.radius, c.color,
                                           c.fillColor, c.fillOpacity),
                                  mapData.map),
                !.maps[mapId].layers = Append(@, circle)]

RECURSIVE removeEach(_, _, _, _)
removeEach(lf, map, layers, i) ==
    IF i > Len(layers) THEN lf
    ELSE removeEach(removeLayer(lf, map, layers[i]), map, layers, i + 1)

\* clearMap emptying the array without removing the layers from the map.
clearMapArrayOnly(w, mapId) ==
    IF ~HasEntry(w.maps, mapId) THEN NotInitialized(w, mapId)
    ELSE [w EXCEPT !.maps[mapId].layers = <<>>]

clearMapIn(w, mapId) ==
    IF ~HasEntry(w.maps, mapId) THEN NotInitialized(w, mapId)
    ELSE LET mapData == w.maps[mapId]
         IN  [w EXCEPT
                !.leaflet = removeEach(@, mapData.map, mapData.layers, 1),
                !.maps[mapId].layers = <<>>]

\* fitBounds over every layer object made for the map, cleared ones included.
fitBoundsEveryLayer(w, mapId) ==
    IF ~HasEntry(w.maps, mapId) THEN NotInitialized(w, mapId)
    ELSE LET mapData == w.maps[mapId]
             made    == { h \in DOMAIN w.leaflet.layers : h[1] = mapData.map }
         IN  IF made # {}
             THEN [w EXCEPT !.leaflet.maps[mapData.map].view =
                     [call |-> "fitBounds", args |-> Pad(GroupBounds(w.leaflet, made))]]
             ELSE w

fitBoundsIn(w, mapId) ==
    IF ~HasEntry(w.maps, mapId) THEN NotInitialized(w, mapId)
    ELSE LET mapData == w.maps[mapId]
         IN  IF Len(mapData.layers) > 0
             THEN [w EXCEPT !.leaflet.maps[mapData.map].view =
                     [call |-> "fitBounds",
                      args |-> Pad(GroupBounds(w.leaflet, Range(mapData.layers)))]]
             ELSE w

\* -------------------------------------------------------------- the actions
Called(op, mapId, markers, fault, w) ==
    /\ maps' = w.maps
    /\ leaflet' = w.leaflet
    /\ console' = w.console
    /\ event' = [op |-> op, mapId |-> mapId, markers |-> markers, fault |-> fault,
                 outcome |-> w.outcome]

Ran(op, mapId, w) == Called(op, mapId, <<>>, NoFault, w)

\* initializeMap running the callback at once when the element is there.
initializeMapSynchronous(mapId, a) ==
    LET t == [mapId |-> mapId, latitude |-> a.latitude,
              longitude |-> a.longitude, zoom |-> a.zoom]
    IN  /\ timers' = IF mapId \in document THEN timers ELSE Append(timers, t)
        /\ Ran("initializeMap", mapId,
               IF mapId \in document THEN initializeCallback(World, document, t)
               ELSE World)
        /\ UNCHANGED document

initializeMap(mapId, a) ==
    /\ timers' = Append(timers, [mapId |-> mapId, latitude |-> a.latitude,
                                 longitude |-> a.longitude, zoom |-> a.zoom])
    /\ Ran("initializeMap", mapId, World)
    /\ UNCHANGED document

timeout ==
    /\ timers # <<>>
    /\ timers' = timersAfterCallback(timers, document)
    /\ Ran("timeout", Head(timers).mapId,
           initializeCallback(World, document, Head(timers)))
    /\ UNCHANGED document

addMarker(mapId, m, fault) ==
    /\ Ran("addMarker", mapId,
           addMarkerIn(World, mapId, m.lat, m.lng, m.title, m.popup, fault.kind))
    /\ UNCHANGED <<timers, document>>

addMarkers(mapId, markers, fault) ==
    /\ Called("addMarkers", mapId, markers, fault,
              addMarkersIn(World, mapId, markers, fault))
    /\ UNCHANGED <<timers, document>>

addCircle(mapId, c, fault) ==
    /\ Ran("addCircle", mapId, addCircleIn(World, mapId, c, fault.kind))
    /\ UNCHANGED <<timers, document>>

clearMap(mapId) ==
    /\ Ran("clearMap", mapId, clearMapIn(World, mapId))
    /\ UNCHANGED <<timers, document>>

fitBounds(mapId) ==
    /\ Ran("fitBounds", mapId, fitBoundsIn(World, mapId))
    /\ UNCHANGED <<timers, document>>

\* The host page renders or removes the element with this id.
render(mapId) ==
    /\ mapId \notin document
    /\ document' = document \cup {mapId}
    /\ Ran("render", mapId, World)
    /\ UNCHANGED timers

dispose(mapId) ==
    /\ mapId \in document
    /\ document' = document \ {mapId}
    /\ Ran("dispose", mapId, World)
    /\ UNCHANGED timers

Init ==
    /\ maps = NoMaps
    /\ timers = <<>>
    /\ document = {}
    /\ leaflet = [maps |-> NoMaps, layers |-> NoMaps]
    /\ console = <<>>
    /\ event = [op |-> "load", mapId |-> "", markers |-> <<>>, fault |-> NoFault,
                outcome |-> "returned"]

InitRendered ==
    /\ maps = NoMaps
    /\ timers = <<>>
    /\ document = MapIds
    /\ leaflet = [maps |-> NoMaps, layers |-> NoMaps]
    /\ console = <<>>
    /\ event = [op |-> "load", mapId |-> "", markers |-> <<>>, fault |-> NoFault,
                outcome |-> "returned"]

\* Room for n more layer objects, when the handler is going to create any.
Room(mapId, n, maxLayers) ==
    HasEntry(maps, mapId) => Cardinality(DOMAIN leaflet.layers) + n <= maxLayers

\* The library faults to consider in a call: none when the call reaches no
\* library call.
Faults(mapId, possible) ==
    {NoFault} \cup (IF HasEntry(maps, mapId) THEN possible ELSE {})

CreateFault == [at |-> 1, kind |-> "create"]

\* The calls a page makes to the handlers, with the inputs of `use`.
Handlers(use) ==
    \/ \E mapId \in use.ids, a \in use.initArgs :
          Len(timers) < use.maxTimers /\ initializeMap(mapId, a)
    \/ timeout
    \/ \E mapId \in use.ids, m \in use.markers :
          \E fault \in Faults(mapId, use.faults \cap FaultAt(1, m)) :
              Room(mapId, 1, use.maxLayers) /\ addMarker(mapId, m, fault)
    \/ \E mapId \in use.ids, markers \in use.batches :
          \E fault \in Faults(mapId, use.faults \cap BatchFaults(markers)) :
              Room(mapId, Len(markers), use.maxLayers) /\ addMarkers(mapId, markers, fault)
    \/ \E mapId \in use.ids, c \in CircleData :
          \E fault \in Faults(mapId, use.faults \cap {CreateFault}) :
              Room(mapId, 1, use.maxLayers) /\ addCircle(mapId, c, fault)
    \/ \E mapId \in use.ids : clearMap(mapId)
    \/ \E mapId \in use.ids : fitBounds(mapId)

\* The arrays given to addMarkers: every array of at most two markerData.
Batches == SeqsUpTo(MarkerData, 2)

AllFaults == UNION { BatchFaults(markers) : markers \in Batches }

\* A page that draws on two maps whose elements stay rendered: every marker
\* and circle input, library faults included, one initializeMap in flight at
\* a time.
Next ==
    Handlers([ids |-> MapIds, initArgs |-> {FirstArgs}, maxTimers |-> 1,
              markers |-> MarkerData, batches |-> Batches,
              faults |-> AllFaults, maxLayers |-> MaxLayers])

Spec == InitRendered /\ [][Next]_vars

\* A page that initializes one map while its element comes and goes:
\* overlapping initializeMap calls with different arguments, and few overlays.
NextInit ==
    \/ Handlers([ids |-> {"m1"}, initArgs |-> InitArgs, maxTimers |-> MaxTimers,
                 markers |-> {PlainMarker},
                 batches |-> SeqsUpTo({PlainMarker}, InitLayers),
                 faults |-> {}, maxLayers |-> InitLayers])
    \/ render("m1")
    \/ dispose("m1")

SpecInit == Init /\ [][NextInit]_vars

\* --------------------------------------------------------------- properties
DrawOps == {"addMarker", "addMarkers", "addCircle", "clearMap", "fitBounds"}

Attached(lf, map) == lf.maps[map].layers

C4_ClearMapEmptiesLayers ==
    [][ (event'.op = "clearMap" /\ HasEntry(maps, event'.mapId))
          => LET id  == event'.mapId
                 map == maps[id].map
             IN  /\ DOMAIN maps' = DOMAIN maps
                 /\ maps'[id] = [map |-> map, layers |-> <<>>]
                 /\ \A h \in Range(maps[id].layers) : h \notin Attached(leaflet', map)
                 /\ Attached(leaflet', map) \subseteq Attached(leaflet, map)
                 /\ leaflet'.maps[map].view = leaflet.maps[map].view
                 /\ leaflet'.maps[map].tileLayer = leaflet.maps[map].tileLayer
                 /\ leaflet'.maps[map].container = leaflet.maps[map].container
                 /\ leaflet'.layers = leaflet.layers
                 /\ \A other \in DOMAIN maps \ {id} :
                       /\ maps'[other] = maps[other]
                       /\ leaflet'.maps[maps[other].map] = leaflet.maps[maps[other].map]
                 /\ console' = <<>>
                 /\ event'.outcome = "returned" ]_vars

C4_Witness ==
    /\ event.op = "clearMap"
    /\ HasEntry(maps, event.mapId)
    /\ maps[event.mapId].layers = <<>>
    /\ leaflet.maps[maps[event.mapId].map].view.call = "fitBounds"
    /\ \E h \in DOMAIN leaflet.layers :
          /\ h[1] = maps[event.mapId].map
          /\ h \notin Attached(leaflet, h[1])
    /\ \E other \in DOMAIN maps : Len(maps[other].layers) > 0

\* C5: in every reachable state, library faults in the add handlers included,
\* every handle in an entry's layers is attached to that entry's map, occurs
\* once, and no map handle and no layer handle belongs to two entries.
C5_LayersAttachedAndOwned ==
    /\ \A id \in DOMAIN maps :
          /\ maps[id].map \in DOMAIN leaflet.maps
          /\ \A i \in 1..Len(maps[id].layers) :
                /\ maps[id].layers[i] \in DOMAIN leaflet.layers
                /\ maps[id].layers[i] \in Attached(leaflet, maps[id].map)
                /\ \A j \in 1..Len(maps[id].layers) :
                      maps[id].layers[i] = maps[id].layers[j] => i = j
    /\ \A id1, id2 \in DOMAIN maps :
          id1 # id2 =>
            /\ maps[id1].map # maps[id2].map
            /\ Range(maps[id1].layers) \cap Range(maps[id2].layers) = {}
            /\ Range(maps[id1].layers) \cap Attached(leaflet, maps[id2].map) = {}

C5_Witness ==
    /\ event.outcome = "threw"
    /\ \E id \in DOMAIN maps :
          /\ Len(maps[id].layers) > 0
          /\ \E h \in Attached(leaflet, maps[id].map) : h \notin Range(maps[id].layers)

\* addMarker called for each element of `markers` in order, from element i on,
\* stopping at the first call that throws; `defaulted` passes '' for a title
\* that is missing or empty.
RECURSIVE AddMarkerEach(_, _, _, _, _, _)
AddMarkerEach(w, mapId, markers, i, fault, defaulted) ==
    IF i > Len(markers) THEN w
    ELSE LET m     == markers[i]
             title == IF defaulted /\ ~Truthy(m.title) THEN <<"">> ELSE m.title
             next  == addMarkerIn(w, mapId, m.lat, m.lng, title, m.popup,
                                  KindAt(fault, i))
         IN  IF next.outcome = "threw" THEN next
             ELSE AddMarkerEach(next, mapId, markers, i + 1, fault, defaulted)

AddMarkersAppends(defaulted) ==
    (event'.op = "addMarkers" /\ HasEntry(maps, event'.mapId))
          => LET mapId   == event'.mapId
                 markers == event'.markers
                 fault   == event'.fault
                 old   == maps[mapId].layers
                 new   == maps'[mapId].layers
                 map   == maps[mapId].map
                 n     == IF fault.at = 0 THEN Len(markers) ELSE fault.at - 1
                 each  == AddMarkerEach(World, mapId, markers, 1, fault, defaulted)
             IN  /\ Len(new) = Len(old) + n
                 /\ SubSeq(new, 1, Len(old)) = old
                 /\ \A i \in 1..n :
                       LET h == new[Len(old) + i]
                       IN  /\ h \notin DOMAIN leaflet.layers
                           /\ h \in Attached(leaflet', map)
                           /\ leaflet'.layers[h].kind = "marker"
                           /\ leaflet'.layers[h].lat = markers[i].lat
                           /\ leaflet'.layers[h].lng = markers[i].lng
                           /\ leaflet'.layers[h].popup =
                                 (IF Truthy(markers[i].popup) THEN markers[i].popup
                                  ELSE Undefined)
                 /\ Attached(leaflet, map) \subseteq Attached(leaflet', map)
                 /\ event'.outcome = (IF fault.at = 0 THEN "returned" ELSE "threw")
                 /\ maps' = each.maps
                 /\ leaflet' = each.leaflet
                 /\ console' = each.console
                 /\ event'.outcome = each.outcome

\* C6, as stated: addMarkers on an existing entry appends one handle per
\* element, in input order, after the handles already there; the result is
\* that of addMarker called with each element's lat, lng, title and popup in
\* order; when the library throws on element k the handles of elements
\* 1..k-1 stay in layers and on the map.
C6_AddMarkersIsAddMarkerEach == [][AddMarkersAppends(FALSE)]_vars

\* C6, amended: the same, the result being that of addMarker called with each
\* element's lat, lng and popup and with its title, or '' when the element
\* has no title or an empty one.
C6_AddMarkersIsAddMarkerEachDefaultedTitle == [][AddMarkersAppends(TRUE)]_vars

C6_Witness ==
    /\ event.op = "addMarkers"
    /\ event.markers = <<PlainMarker, PopupMarker>>
    /\ event.fault = [at |-> 2, kind |-> "bind"]
    /\ event.outcome = "threw"
    /\ HasEntry(maps, event.mapId)
    /\ Len(maps[event.mapId].layers) = 1
    /\ leaflet.layers[maps[event.mapId].layers[1]].title = <<"">>
    /\ \E h \in Attached(leaflet, maps[event.mapId].map) :
          h \notin Range(maps[event.mapId].layers)

\* The box of the layer objects `handles`, each a point or a circle's box,
\* widened on every side by PadPercent of its height and width.
PaddedBox(lf, handles) ==
    LET south == Min({ lf.layers[h].lat - lf.layers[h].radius : h \in handles })
        west  == Min({ lf.layers[h].lng - lf.layers[h].radius : h \in handles })
        north == Max({ lf.layers[h].lat + lf.layers[h].radius : h \in handles })
        east  == Max({ lf.layers[h].lng + lf.layers[h].radius : h \in handles })
    IN  << south - ((north - south) * PadPercent) \div 100,
           west  - ((east - west) * PadPercent) \div 100,
           north + ((north - south) * PadPercent) \div 100,
           east  + ((east - west) * PadPercent) \div 100 >>

\* C8: fitBounds on an existing entry changes neither the registry nor any
\* layer object nor what is attached to any map; with empty layers it changes
\* nothing at all, and with layers it sets the map's view to the padded box
\* of exactly the handles in layers, leaving every other map as it was.
C8_FitBoundsFitsCurrentLayers ==
    [][ (event'.op = "fitBounds" /\ HasEntry(maps, event'.mapId))
          => LET id  == event'.mapId
                 map == maps[id].map
             IN  /\ maps' = maps
                 /\ leaflet'.layers = leaflet.layers
                 /\ DOMAIN leaflet'.maps = DOMAIN leaflet.maps
                 /\ \A h \in DOMAIN leaflet.maps \ {map} :
                       leaflet'.maps[h] = leaflet.maps[h]
                 /\ Attached(leaflet', map) = Attached(leaflet, map)
                 /\ leaflet'.maps[map].tileLayer = leaflet.maps[map].tileLayer
                 /\ leaflet'.maps[map].container = leaflet.maps[map].container
                 /\ IF maps[id].layers = <<>>
                    THEN leaflet'.maps[map].view = leaflet.maps[map].view
                    ELSE leaflet'.maps[map].view =
                           [call |-> "fitBounds",
                            args |-> PaddedBox(leaflet, Range(maps[id].layers))]
                 /\ console' = <<>>
                 /\ event'.outcome = "returned" ]_vars

C8_Witness ==
    /\ event.op = "fitBounds"
    /\ HasEntry(maps, event.mapId)
    /\ Len(maps[event.mapId].layers) > 0
    /\ leaflet.maps[maps[event.mapId].map].view =
          [call |-> "fitBounds",
           args |-> PaddedBox(leaflet, Range(maps[event.mapId].layers))]
    /\ \E h \in DOMAIN leaflet.layers :
          /\ h[1] = maps[event.mapId].map
          /\ h \notin Attached(leaflet, h[1])

MapsOn(lf, mapId) == { h \in DOMAIN lf.maps : lf.maps[h].container = mapId }

\* The entry the callback of timer t stores, and its map object.
EntryBuiltFor(t, entry, lf) ==
    /\ entry.layers = <<>>
    /\ entry.map \in DOMAIN lf.maps
    /\ lf.maps[entry.map] =
          [container |-> t.mapId,
           view      |-> [call |-> "setView", args |-> <<t.latitude, t.longitude, t.zoom>>],
           tileLayer |-> [maxZoom |-> MaxZoom],
           layers    |-> {}]

C3_ReinitializeIsNoOp ==
    [][ /\ (event'.op = "timeout" /\ HasEntry(maps, event'.mapId))
          => /\ maps' = maps
             /\ leaflet' = leaflet
             /\ Cardinality(MapsOn(leaflet', event'.mapId)) = 1
        /\ (event'.op = "initializeMap" /\ HasEntry(maps, event'.mapId))
          => /\ maps' = maps
             /\ leaflet' = leaflet ]_vars

C3_Witness ==
    /\ event.op = "timeout"
    /\ event.mapId \in document
    /\ console = <<>>
    /\ HasEntry(maps, event.mapId)
    /\ Len(maps[event.mapId].layers) > 0
    /\ leaflet.maps[maps[event.mapId].map].view =
          [call |-> "setView", args |-> <<10, 20, 5>>]

\* C7: a call of initializeMap arms one timer; a timer fires once and leaves
\* the queue then, and nothing else arms or removes a timer; a timer firing
\* while its element is missing logs SurfaceNotFound and leaves the registry
\* and the library as they were; an entry is created only by a timer firing.
C7_OneShotTimer ==
    [][ /\ IF event'.op = "initializeMap" THEN Len(timers') = Len(timers) + 1
           ELSE IF event'.op = "timeout" THEN timers # <<>> /\ timers' = Tail(timers)
           ELSE timers' = timers
        /\ (event'.op = "timeout" /\ event'.mapId \notin document)
          => /\ console' = <<SurfaceNotFound(event'.mapId)>>
             /\ maps' = maps
             /\ leaflet' = leaflet
        /\ DOMAIN maps' # DOMAIN maps
          => /\ event'.op = "timeout"
             /\ DOMAIN maps' = DOMAIN maps \cup {Head(timers).mapId} ]_vars

C7_Witness ==
    /\ event.op = "timeout"
    /\ console = <<SurfaceNotFound(event.mapId)>>
    /\ ~HasEntry(maps, event.mapId)
    /\ timers = <<>>

\* C9, as stated: the callback of initializeMap for an id that has an entry
\* logs nothing, whether or not the element exists.
C9_ReinitializeLogsNothing ==
    [][ (event'.op = "timeout" /\ HasEntry(maps, event'.mapId))
          => console' = <<>> ]_vars

\* C9, amended: the callback of initializeMap for an id that has an entry
\* changes neither the registry nor the library; it logs nothing when the
\* element exists and logs SurfaceNotFound when the element is missing, entry
\* or not; SurfaceNotFound is logged by nothing but a timer firing while its
\* element is missing.
C9_SurfaceNotFoundIffElementMissing ==
    [][ /\ (event'.op = "timeout" /\ HasEntry(maps, event'.mapId))
          => /\ maps' = maps
             /\ leaflet' = leaflet
        /\ event'.op = "timeout"
          => console' = (IF event'.mapId \in document THEN <<>>
                         ELSE <<SurfaceNotFound(event'.mapId)>>)
        /\ event'.op # "timeout"
          => \A i \in 1..Len(console') : console'[i][1] # "SurfaceNotFound" ]_vars

C9_Witness ==
    /\ event.op = "timeout"
    /\ HasEntry(maps, event.mapId)
    /\ console = <<SurfaceNotFound(event.mapId)>>

\* C10: at most one map is ever built on an id; an entry, once stored, stays
\* in the registry with the same map handle; and no handler run on an id
\* that has an entry logs MapNotInitialized.
C10_EntriesPersist ==
    [][ /\ \A id \in DOMAIN maps :
             /\ id \in DOMAIN maps'
             /\ maps'[id].map = maps[id].map
        /\ \A id \in MapIds : Cardinality(MapsOn(leaflet', id)) <= 1
        /\ \A h \in DOMAIN leaflet.maps :
             /\ h \in DOMAIN leaflet'.maps
             /\ leaflet'.maps[h].container = leaflet.maps[h].container
        /\ HasEntry(maps, event'.mapId)
          => \A i \in 1..Len(console') : console'[i][1] # "MapNotInitialized" ]_vars

C10_Witness ==
    /\ event.op = "clearMap"
    /\ console = <<>>
    /\ HasEntry(maps, event.mapId)
    /\ event.mapId \notin document
    /\ \E i \in 1..Len(timers) : timers[i].mapId = event.mapId

====
